---- MODULE Spec2Model ----
(***************************************************************************)
(* State-machine model of the EDS disease-severity engine                  *)
(* (src/eds/estimate_disease_severity.py with its helpers in               *)
(* src/eds/utils.py, src/eds/get_spray.py, src/eds/get_rc_res.py and       *)
(* src/eds/calculation_precip_score.py).                                   *)
(*                                                                         *)
(* Numbers.  The program computes in binary floating point.  The model     *)
(* computes in fixed point with floor division:                            *)
(*   site quantities (H, I, L, R, RG, RI, RT, REM, ...) in 1/SU site,      *)
(*   dimensionless factors (table values, Rc, COFR, RRG, ...) in 1/FR,     *)
(*   Sev and its sums (RAUPC, AUDPC) in 1/SevScale,                        *)
(*   temperatures, GDU and rainfall in 1/TU degree or millimetre,          *)
(*   ip and p in 1/FR day.                                                 *)
(* Sums and differences are exact; a product or quotient is the floor of   *)
(* the exact value, so its sign is the sign the program computes.          *)
(***************************************************************************)
EXTENDS Integers, Sequences, FiniteSets, TLC

SU == 10 * 10
FR == 100 * 100
TU == 2 * 5
SevScale == 1000 * 1000

Abs(x) == IF x < 0 THEN -x ELSE x
Min(a, b) == IF a <= b THEN a ELSE b
Max(a, b) == IF a >= b THEN a ELSE b
B2I(b) == IF b THEN 1 ELSE 0

(* floor(a * n / d) for d > 0, 0 <= n, computed without leaving 32 bits     *)
MulDiv(a, n, d) == (a \div d) * n + ((a % d) * n) \div d

(* x * f for a factor f held in 1/FR                                        *)
MulFR(x, f) == MulDiv(x, f, FR)

(* floor(a * scale / b): the quotient a / b in 1/scale, b # 0               *)
Ratio(a, b, scale) ==
    LET n == IF b < 0 THEN -a ELSE a
        d == Abs(b)
    IN  IF Abs(n) <= 2147483647 \div scale THEN (n * scale) \div d
        ELSE IF d >= scale THEN n \div (d \div scale)
        ELSE (n \div d) * scale

RECURSIVE SumSeq(_)
SumSeq(s) == IF s = <<>> THEN 0 ELSE Head(s) + SumSeq(Tail(s))

(***************************************************************************)
(* Crop lookup tables: the "Corn" tables of CropParameters, x in 1/TU      *)
(* (temperature, GDU, mm) or 1/FR (DVS8), y in 1/FR.                       *)
(***************************************************************************)
ip_t_cof == [x |-> <<100, 130, 155, 170, 200, 260, 300, 350>>,
             y |-> <<0, 1400, 2700, 8200, 10000, 9200, 4100, 0>>]

p_t_cof == [x |-> <<150, 200, 250>>,
            y |-> <<6000, 8100, 10000>>]

rc_t_input == [x |-> <<150, 200, 225, 240, 260, 300>>,
               y |-> <<2200, 10000, 4400, 4300, 4100, 2200>>]

dvs_8_input ==
    [x |-> <<1100, 2000, 3500, 4750, 6100, 7400, 11350, 16600, 19250, 23200, 27000>>,
     y |-> <<0, 10000, 20000, 30000, 40000, 50000, 60000, 80000, 90000, 100000, 110000>>]

rc_a_input == [x |-> <<0, 10000, 20000, 30000, 40000, 50000, 60000, 70000>>,
               y |-> <<10000, 10000, 10000, 10000, 10000, 10000, 10000, 10000>>]

fungicide_residual == [x |-> <<0, 50, 100, 150, 200>>,
                       y |-> <<10000, 8000, 5000, 2500, 0>>]

(* np.interp: piecewise linear, clamped to the end values outside the table *)
Interp(x, tab) ==
    LET n == Len(tab.x)
    IN  IF x <= tab.x[1] THEN tab.y[1]
        ELSE IF x >= tab.x[n] THEN tab.y[n]
        ELSE LET i == CHOOSE j \in 1..(n - 1) : tab.x[j] <= x /\ x < tab.x[j + 1]
             IN  tab.y[i]
                 + ((tab.y[i + 1] - tab.y[i]) * (x - tab.x[i]))
                       \div (tab.x[i + 1] - tab.x[i])

(***************************************************************************)
(* utils.calculate_antecedent_precipitation_conditions_score               *)
(* (calculation_precip_score.py holds the same code).                      *)
(***************************************************************************)
(* a window of five days from the day on                                    *)
PrecipWindow_Five(day, occ) ==
    IF day > Len(occ) THEN <<>> ELSE SubSeq(occ, day, Min(day + 4, Len(occ)))

(* a window that looks back: the day and the three days before it          *)
PrecipWindow_Antecedent(day, occ) ==
    IF day > Len(occ) THEN <<>> ELSE SubSeq(occ, Max(1, day - 3), day)

(* precipitation_occur.iloc[(day - 1):(day + 3)] : a slice stops at the end *)
PrecipWindow(day, occ) ==
    IF day > Len(occ) THEN <<>> ELSE SubSeq(occ, day, Min(day + 3, Len(occ)))

(* rolling sums that are never defined                                      *)
RollingSums_None(w, k) == {}

(* Series.rolling(k).sum(): defined from the k-th element of the window on  *)
RollingSums(w, k) ==
    { SumSeq([j \in 1..k |-> B2I(w[i - k + j])]) : i \in k..Len(w) }

calculate_antecedent_precipitation_conditions_score(day, occ) ==
    LET w == PrecipWindow(day, occ)
        four_day_sum == SumSeq([i \in 1..Len(w) |-> B2I(w[i])])
        three_day_sums == RollingSums(w, 3)
        two_day_sums == RollingSums(w, 2)
    IN  IF four_day_sum = 0 THEN 1
        ELSE IF four_day_sum = 1 THEN 2
        ELSE IF four_day_sum = 2 THEN 3
        ELSE IF 2 \in two_day_sums THEN 3
        ELSE IF 3 \in three_day_sums THEN 3
        ELSE 4

(* Python round(): to the nearest integer, a tie to the even one            *)
RoundHalfEven(num, den) ==
    LET q == num \div den
        r == num % den
    IN  IF 2 * r < den THEN q
        ELSE IF 2 * r > den THEN q + 1
        ELSE IF q % 2 = 0 THEN q ELSE q + 1

(* math.ceil(day - ip), ip in 1/FR day                                      *)
CeilDayMinusIp(day, ip) == -((ip - day * FR) \div FR)

(***************************************************************************)
(* Scalars the drivers pass (calculation_crop_disease_severity.py) and the *)
(* literals of the day-one initializer.                                    *)
(***************************************************************************)
inocp == 10
ip_opt == 14
GDU_treshhold == 10
rc_opt_par == 3500
rrlex_par == 1000
spray_interval == 7
H_init == 2500000
SITEmax_init == 10000000
RRG_permille == 173
RRSEN_ppm == 2307
RRDD_init == 1
RDI_init == 0
REM_init == 99
InocStartDay == 10
DefaultDap == 140

(***************************************************************************)
(* Bounds of the model.                                                    *)
(***************************************************************************)
MaxDays == 7
MaxDap == 2

TempSet == {100, 130, 200}
RainSet == {0, 50}
precip_threshold == 20

Row(t, mm) == [Temperature |-> t, precip_occur |-> (mm >= precip_threshold), precip |-> mm]

(* weather series: one temperature on the planting day and one on the       *)
(* later days, rainfall free on every day; a series too short for the loop  *)
(* (0 to 3 rows) or of MaxDays rows; and one dry series that warms up on    *)
(* day 3, so that ip rises above the day index after a day below it         *)
WeatherSet ==
    UNION { { [d \in 1..n |-> Row(IF d = 1 THEN t1 ELSE t2, r[d])] :
                t1 \in TempSet, t2 \in TempSet, r \in [1..n -> RainSet] } :
            n \in (0..3) \cup {MaxDays} }
    \cup {[d \in 1..MaxDays |-> Row(IF d <= 2 THEN 130 ELSE 200, 0)]}

POptSet == {2}
DapSet == {0, MaxDap, DefaultDap}

(* a lookup table with a single point, which np.interp accepts and reads as *)
(* a constant                                                               *)
OnePointTable == [x |-> <<200>>, y |-> <<FR>>]

ArgSet ==
    [weather_df : WeatherSet,
     p_opt : POptSet,
     is_fungicide : BOOLEAN,
     days_after_planting : DapSet,
     ip_t_cof : {ip_t_cof}]
    \cup
    [weather_df : {[d \in 1..MaxDays |-> Row(130, 0)]},
     p_opt : POptSet,
     is_fungicide : {FALSE},
     days_after_planting : {DefaultDap},
     ip_t_cof : {OnePointTable}]

(* a second call in the same process: the same arguments, or the same with  *)
(* the rainfall of the last day changed                                     *)
OtherRain(mm) == CHOOSE x \in RainSet : x # mm

ArgVariants(a) ==
    LET n == Len(a.weather_df)
    IN  IF n = 0 THEN {a}
        ELSE {a,
              [a EXCEPT !.weather_df =
                  [a.weather_df EXCEPT ![n] = Row(a.weather_df[n].Temperature,
                                                  OtherRain(a.weather_df[n].precip))]]}

(* the spray schedule (Parameters.spray): spray_number, spray_moment,       *)
(* spray_eff in 1/FR; cols are the columns helpers have added               *)
SpraySchedule ==
    [rows |-> <<[spray_number |-> 1, spray_moment |-> 1, spray_eff |-> 4000],
                [spray_number |-> 2, spray_moment |-> 3, spray_eff |-> 8000]>>,
     cols |-> {}]

NoArgs == [weather_df |-> <<>>, p_opt |-> 0, is_fungicide |-> FALSE,
           days_after_planting |-> 0, ip_t_cof |-> ip_t_cof]
NoRecord == [none |-> TRUE]
NoRun == [args |-> NoArgs, outcome |-> "none", results |-> <<>>, day |-> 0]
NoCall == [fn |-> "none"]
NoBatch == [pc |-> "none"]

VARIABLES
    pc,            \* "idle", "loop", "returned", "raised"
    run,           \* number of calls of estimate_disease_severity started
    args,          \* arguments of the current call
    fungicide,     \* the caller's spray schedule (a DataFrame the helpers write to)
    day,           \* loop variable of estimate_disease_severity
    results_day,   \* the dict of the day being computed
    results_list,  \* the history list
    ri_series,     \* RI by day
    rt_count,      \* cohort countdowns by day
    raised,        \* the exception that ended the call, "" if none
    prev,          \* what the previous call returned
    call,          \* the last direct call of a fungicide helper and its outcome
    batch          \* the batch driver: its inputs, loop position, rows and outcome

(* a length that counts a row past the last                                 *)
total_days_PlusOne == Len(args.weather_df) + 1

(* a length that leaves the last row out                                    *)
total_days_LessOne == Max(0, Len(args.weather_df) - 1)

vars == <<pc, run, args, fungicide, day, results_day, results_list, ri_series,
          rt_count, raised, prev, call, batch>>

total_days == Len(args.weather_df)

(* weather_df["precip_occur"]                                               *)
OccurOf(w) == [d \in 1..Len(w) |-> w[d].precip_occur]

(***************************************************************************)
(* Fungicide helpers.                                                      *)
(***************************************************************************)
AddColumn(fung, c) == [fung EXCEPT !.cols = @ \cup {c}]

(* (day > spray_moment) & (day <= V4), row by row                           *)
ActiveFlags(d, fung) ==
    [i \in 1..Len(fung.rows) |->
        d > fung.rows[i].spray_moment
        /\ d <= fung.rows[i].spray_moment + spray_interval]

(* fungicide["spray_moment"] < day <= fungicide[col] is the chained         *)
(* comparison (spray_moment < day) and (day <= col): `and` asks the Series  *)
(* spray_moment < day for its truth value, which pandas refuses for every   *)
(* Series (ValueError: The truth value of a Series is ambiguous).           *)
SeriesTruthValue == "ValueError"

(* get_spray.get_spray                                                      *)
get_spray(d, daily_precipitation, fung) ==
    LET f == AddColumn(fung, "V4")
        flag == ActiveFlags(d, f)
    IN  [raised |-> "",
         value |-> IF \E i \in DOMAIN flag : flag[i] THEN daily_precipitation ELSE 0,
         fungicide |-> f]

(* get_rc_res.get_rc_res                                                    *)
get_rc_res(d, fung, residual) ==
    [raised |-> SeriesTruthValue, value |-> FR, fungicide |-> AddColumn(fung, "V4")]

(* utils.calculate_fungicide_effective_residual                             *)
calculate_fungicide_effective_residual(d, fung, residual) ==
    [raised |-> SeriesTruthValue, value |-> FR, fungicide |-> AddColumn(fung, "tmp")]

(* utils.calculate_flow_residual                                            *)
calculate_flow_residual(d, daily_precipitation, fung) ==
    [raised |-> SeriesTruthValue, value |-> 0, fungicide |-> AddColumn(fung, "tmp")]

(* estimate_disease_severity_day_n, lines 298-326: the fungicide terms of   *)
(* a DayN step.  fungicide["V4"] is a KeyError when no helper wrote V4;     *)
(* .iloc[0] takes the first matching row, IndexError (none) gives 1.        *)
FungicideTermsDayN(d, fung, ResSpray) ==
    LET hit == { i \in 1..Len(fung.rows) :
                    fung.rows[i].spray_moment <= d
                    /\ d <= fung.rows[i].spray_moment + spray_interval }
        FungEffcCur == IF hit = {} THEN FR
                       ELSE fung.rows[CHOOSE i \in hit : \A j \in hit : i <= j].spray_eff
        Residual == Interp(ResSpray, fungicide_residual)
        RcRes == MulFR(FungEffcCur, Residual)
    IN  [raised |-> IF "V4" \in fung.cols THEN "" ELSE "KeyError",
         FungEffcCur |-> FungEffcCur,
         RcFCur |-> FungEffcCur,
         Residual |-> Residual,
         RcRes |-> RcRes,
         FungEffecRes |-> RcRes,
         EffRes |-> FungEffcCur,
         fung_prod |-> MulFR(FungEffcCur, RcRes)]

(***************************************************************************)
(* estimate_disease_severity_day_one                                       *)
(***************************************************************************)
(* a DIS that leaves the latent pool out                                    *)
DISOf_NoLatent(R, I, CumuLeak, L) == R + I + CumuLeak

(* DIS = R + I + CumuLeak + L and TOTSITES = HSEN + H + DIS                  *)
DISOf(R, I, CumuLeak, L) == R + I + CumuLeak + L

TOTSITESOf(HSEN, H, DIS) == HSEN + H + DIS

(* The quotient of two numpy floats with divisor 0 is nan or +-inf, with a  *)
(* RuntimeWarning and no exception; anything computed from it is nan or     *)
(* +-inf too.  NotFinite stands for every such value.                       *)
NotFinite == -2147483647

(* DIS / TOTSITES                                                           *)
SevOf(DIS, TOTSITES) ==
    IF TOTSITES = 0 THEN NotFinite ELSE Ratio(DIS, TOTSITES, SevScale)

(* 1 - DIS / (DIS + H)                                                      *)
COFROf(DIS, H) ==
    IF DIS + H = 0 THEN NotFinite ELSE FR - Ratio(DIS, DIS + H, FR)

RGOf(RRG, H, TOTSITES, SITEmax) ==
    MulFR(MulDiv(H, RRG, 1000), FR - Ratio(TOTSITES, SITEmax, FR))

RcOf(RcOpt, RcT, RcA, Rc_W, fung_prod) ==
    MulFR(MulFR(MulFR(RcOpt, RcT), RcA) * Rc_W, fung_prod)

(* np.power(COFR, Agg) for a whole number Agg                               *)
RECURSIVE PowFR(_, _)
PowFR(x, n) == IF n <= 0 THEN FR ELSE MulFR(PowFR(x, n - 1), x)

(* Rc * I * np.power(COFR, Agg) + start                                     *)
RIOf(Rc, I, COFR, Agg, start) ==
    IF COFR = NotFinite THEN NotFinite
    ELSE MulFR(MulFR(I, Rc), PowFR(COFR, Agg)) + start * SU

RSENOf(RRDD, RRSEN, H) == MulDiv(RRDD, SU, FR) + MulDiv(H \div 1000, RRSEN, 1000)

RLEXOf(RRLEX, I, COFR) ==
    IF COFR = NotFinite THEN NotFinite ELSE MulFR(MulFR(I, RRLEX), COFR)

estimate_disease_severity_day_one(a, fung) ==
    LET Temp == a.weather_df[1].Temperature
        ip == ip_opt * Interp(Temp, a.ip_t_cof)
        I == MulDiv(ip, SU, FR)
        H == H_init * SU
        CumuLeak == 0 + 0
        DIS == DISOf(0, I, CumuLeak, 0)
        TOTSITES == TOTSITESOf(0, H, DIS)
        Sev == SevOf(DIS, TOTSITES)
        DVS8 == Interp(0, dvs_8_input)
        GDU == Temp - GDU_treshhold * TU
        SITEmax == SITEmax_init * SU
        Rc_W == calculate_antecedent_precipitation_conditions_score(1, OccurOf(a.weather_df))
        RcOpt == rc_opt_par - rrlex_par
        RcT == Interp(Temp, rc_t_input)
        RcA == Interp(DVS8, rc_a_input)
        res == IF a.is_fungicide
               THEN calculate_fungicide_effective_residual(1, fung, 0)
               ELSE [raised |-> "", value |-> FR, fungicide |-> fung]
        fung_prod == IF a.is_fungicide THEN MulFR(FR, res.value) ELSE FR
        Rc == RcOf(RcOpt, RcT, RcA, Rc_W, fung_prod)
        COFR == FR - Ratio(DIS, 2 * H, FR)
        flow == IF a.is_fungicide /\ res.raised = ""
                THEN calculate_flow_residual(1, a.weather_df[1].precip, res.fungicide)
                ELSE [raised |-> res.raised, value |-> 0, fungicide |-> res.fungicide]
        base == [p_opt |-> a.p_opt, ip_opt |-> ip_opt, Temp |-> Temp, ip |-> ip,
                 RRDD |-> RRDD_init, I |-> I,
                 p |-> Ratio(a.p_opt * FR, Interp(Temp, p_t_cof), FR),
                 L |-> 0, AUDPC |-> 0, GDUsum |-> 0, H |-> H, HSEN |-> 0,
                 LeakI |-> 0, LeakL |-> 0, R |-> 0, LAT |-> 0,
                 CumuLeak |-> CumuLeak, DIS |-> DIS, TOTSITES |-> TOTSITES,
                 Sev |-> Sev, DVS8 |-> DVS8,
                 RAUPC |-> IF DVS8 < 7 * FR THEN Sev ELSE 0,
                 GDU |-> GDU, RTinc |-> GDU, SITEmax |-> SITEmax,
                 RRG |-> RRG_permille,
                 RG |-> RGOf(RRG_permille, H, TOTSITES, SITEmax),
                 Rc_W |-> Rc_W, RRLEX |-> rrlex_par, inocp |-> inocp,
                 RcOpt |-> RcOpt, RcT |-> RcT, RcA |-> RcA, Rc |-> Rc,
                 COFR |-> COFR, Agg |-> 1, RRSEN |-> RRSEN_ppm,
                 RSEN |-> RSENOf(RRDD_init, RRSEN_ppm, H),
                 RLEX |-> RLEXOf(rrlex_par, I, COFR),
                 RDI |-> RDI_init, REM |-> REM_init, RT |-> 0, RDL |-> 0]
        fields == [ResSpray |-> 0, Residual |-> 0, RcFCur |-> FR, FungEffcCur |-> FR,
                   EffRes |-> FR, FungEffecRes |-> res.value, RcRes |-> FR,
                   FlowRes |-> flow.value]
    IN  [raised |-> flow.raised,
         fungicide |-> flow.fungicide,
         results_day |-> IF a.is_fungicide THEN base @@ fields ELSE base,
         RI |-> RIOf(Rc, I, COFR, 1, 1)]

(***************************************************************************)
(* estimate_disease_severity_day_n                                         *)
(***************************************************************************)
(* position (from 1) of Python's list[k], 0 when it is an IndexError        *)
PyIndex(n, k) ==
    IF k >= 0 THEN (IF k < n THEN k + 1 ELSE 0)
    ELSE (IF -k <= n THEN n + k + 1 ELSE 0)

(* the index of the REM lookback, lines 363-366                             *)
RemIndex(d, ip, rl) ==
    IF (d - 1) = Len(rl) THEN CeilDayMinusIp(d, ip) - 2
    ELSE CeilDayMinusIp(d, ip) - 1

(* the sum taken after the countdown instead of before it                   *)
GraduatedSum_AfterCountDown(ri, rc) ==
    SumSeq([i \in 1..Len(ri) |-> IF rc[i] = 1 THEN ri[i] ELSE 0])

(* ri_series[rt_count == 0].sum()                                          *)
GraduatedSum(ri, rc) ==
    SumSeq([i \in 1..Len(ri) |-> IF rc[i] = 0 THEN ri[i] ELSE 0])

(* a countdown that never counts                                            *)
CountDown_Stuck(rc) == rc

(* rt_count -= 1                                                            *)
CountDown(rc) == [i \in 1..Len(rc) |-> rc[i] - 1]

estimate_disease_severity_day_n(a, fung, d, rd, ri, rl, rc) ==
    LET H == rd.H + (rd.RG - ri[d - 1] - rd.RSEN - rd.RLEX)
        HSEN == rd.HSEN + rd.RSEN
        LeakI == rd.LeakI + rd.RDI
        LeakL == rd.LeakL + rd.RDL
        R == rd.R + rd.REM
        ResSpray == IF a.is_fungicide THEN rd.ResSpray + rd.FlowRes ELSE 0
        Temp == a.weather_df[d].Temperature
        ip == ip_opt * Interp(Temp, a.ip_t_cof)
        pfac == Interp(Temp, p_t_cof)
        CumuLeak == LeakL + LeakI
        DIS == DISOf(R, rd.I, CumuLeak, rd.L)
        TOTSITES == TOTSITESOf(HSEN, H, DIS)
        Sev == SevOf(DIS, TOTSITES)
        DVS8 == Interp(rd.GDUsum, dvs_8_input)
        GDU == Temp - GDU_treshhold * TU
        Rc_W == calculate_antecedent_precipitation_conditions_score(d, OccurOf(a.weather_df))
        RcT == Interp(Temp, rc_t_input)
        RcA == Interp(DVS8, rc_a_input)
        ft == FungicideTermsDayN(d, fung, ResSpray)
        fung_prod == IF a.is_fungicide THEN ft.fung_prod ELSE FR
        Rc == RcOf(rd.RcOpt, RcT, RcA, Rc_W, fung_prod)
        start == IF d > InocStartDay THEN inocp ELSE 0
        COFR == COFROf(DIS, H)
        RInew == RIOf(Rc, rd.I, COFR, rd.Agg, start)
        idx == PyIndex(Len(rl), RemIndex(d, ip, rl))
        lookback == d * FR > ip
        REM == IF lookback /\ idx > 0 THEN rl[idx].RT ELSE rd.REM
        flow == IF a.is_fungicide
                THEN calculate_flow_residual(d, a.weather_df[d].precip, fung)
                ELSE [raised |-> "", value |-> 0, fungicide |-> fung]
        ri1 == [ri EXCEPT ![d] = RInew]
        rc1 == [rc EXCEPT ![d] = RoundHalfEven(a.p_opt * FR, pfac)]
        base == [rd EXCEPT
                 !.H = H, !.HSEN = HSEN, !.LeakI = LeakI, !.LeakL = LeakL, !.R = R,
                 !.Temp = Temp, !.ip = ip, !.p = Ratio(a.p_opt * FR, pfac, FR),
                 !.CumuLeak = CumuLeak, !.DIS = DIS, !.TOTSITES = TOTSITES,
                 !.Sev = Sev, !.DVS8 = DVS8,
                 !.RAUPC = IF DVS8 < 7 * FR THEN Sev ELSE 0,
                 !.GDU = GDU, !.RTinc = GDU,
                 !.RG = RGOf(rd.RRG, H, TOTSITES, rd.SITEmax),
                 !.Rc_W = Rc_W, !.RcT = RcT, !.RcA = RcA, !.Rc = Rc, !.COFR = COFR,
                 !.RSEN = RSENOf(rd.RRDD, rd.RRSEN, H),
                 !.RLEX = RLEXOf(rd.RRLEX, rd.I, COFR),
                 !.RDI = MulDiv(rd.I, rd.RRDD, FR),
                 !.RDL = MulDiv(rd.L, rd.RRDD, FR),
                 !.REM = REM,
                 !.RT = GraduatedSum(ri1, rc1)]
        new == IF a.is_fungicide
               THEN [base EXCEPT !.ResSpray = ResSpray, !.FungEffcCur = ft.FungEffcCur,
                                 !.RcFCur = ft.RcFCur, !.Residual = ft.Residual,
                                 !.RcRes = ft.RcRes, !.FungEffecRes = ft.FungEffecRes,
                                 !.EffRes = ft.EffRes, !.FlowRes = flow.value]
               ELSE base
        exc == IF a.is_fungicide /\ ft.raised # "" THEN ft.raised
               ELSE IF lookback /\ idx = 0 THEN "IndexError"
               ELSE flow.raised
    IN  [raised |-> exc,
         fungicide |-> IF a.is_fungicide /\ ft.raised = "" THEN flow.fungicide ELSE fung,
         results_day |-> new,
         results_list |-> Append(rl, new),
         ri_series |-> ri1,
         rt_count |-> CountDown(rc1)]

(***************************************************************************)
(* estimate_disease_severity: the driver loop                              *)
(***************************************************************************)
output_columns ==
    {"Temp", "RRDD", "ip", "p", "RcT", "Rc_W", "GDU", "GDUsum", "DVS8", "RcA", "Rc",
     "I", "RI", "COFR", "RSEN", "L", "HSEN", "TOTSITES", "RLEX", "R", "RG", "CumuLeak",
     "DIS", "Sev", "RAUPC", "RDI", "RDL", "LeakL", "LeakI", "REM", "Agg", "RRG",
     "SITEmax", "RRSEN", "inocp", "RRLEX", "RcOpt", "p_opt", "ip_opt", "H", "LAT",
     "AUDPC", "RT", "RTinc"}

KeptColumns == {"I", "L", "AUDPC", "GDUsum"}

(* arrays that keep what the previous call left in rt_count                 *)
Zeros_Leftover(n) == IF Len(rt_count) = n THEN rt_count ELSE [i \in 1..n |-> 0]

Zeros(n) == [i \in 1..n |-> 0]

(* a copy that is the same object as the original                           *)
DictCopy_SameObject(rd) == [dict |-> rd, same_object |-> TRUE]

(* results_day.copy(), line 523: a new dict with the same items.  The dict  *)
(* it copies is the one the history list holds as its last element          *)
(* (results_list = [results_day] at line 519, results_list.append(          *)
(* results_day) at line 385), so without the copy the writes of the step    *)
(* would reach that record.                                                 *)
DictCopy(rd) == [dict |-> rd, same_object |-> FALSE]

(* the history after a step that appended `written`, the dict it worked on  *)
HistoryAfterStep(rl, c, written) ==
    IF c.same_object /\ Len(rl) >= 2
    THEN [rl EXCEPT ![Len(rl) - 1] = written]
    ELSE rl

(* a carry-forward that counts Agg up                                       *)
CarryForward_AggRaised(rd, ri, d) ==
    [rd EXCEPT !.I = @ + (rd.RT + rd.RLEX - rd.REM - rd.RDI),
               !.L = @ + (ri[d - 1] - rd.RT - rd.RDL),
               !.AUDPC = @ + rd.RAUPC,
               !.GDUsum = @ + rd.RTinc,
               !.Agg = @ + 1]

(* a carry-forward that clears REM                                          *)
CarryForward_RemCleared(rd, ri, d) ==
    [rd EXCEPT !.I = @ + (rd.RT + rd.RLEX - rd.REM - rd.RDI),
               !.L = @ + (ri[d - 1] - rd.RT - rd.RDL),
               !.AUDPC = @ + rd.RAUPC,
               !.GDUsum = @ + rd.RTinc,
               !.REM = 0]

(* a carry-forward that moves RT into I without taking it out of L          *)
CarryForward_LatentKept(rd, ri, d) ==
    [rd EXCEPT !.I = @ + (rd.RT + rd.RLEX - rd.REM - rd.RDI),
               !.L = @ + (ri[d - 1] - rd.RDL),
               !.AUDPC = @ + rd.RAUPC,
               !.GDUsum = @ + rd.RTinc]

(* lines 523-533: the copy of yesterday's dict with I, L, AUDPC and GDUsum  *)
(* carried forward                                                          *)
CarryForward(rd, ri, d) ==
    [rd EXCEPT !.I = @ + (rd.RT + rd.RLEX - rd.REM - rd.RDI),
               !.L = @ + (ri[d - 1] - rd.RT - rd.RDL),
               !.AUDPC = @ + rd.RAUPC,
               !.GDUsum = @ + rd.RTinc]

(* lines 537-539: every output column but the kept four is set to 0; the    *)
(* key "RI", which no dict held before, is added                            *)
ZeroColumns(rd) ==
    [k \in (DOMAIN rd) \cup {"RI"} |->
        IF k \in output_columns \ KeptColumns THEN 0 ELSE rd[k]]

(* lines 568-570: the returned frame, one row per dict, RI from ri_series   *)
ResultsFrame(rl, ri) ==
    [i \in 1..Len(rl) |->
        [k \in (DOMAIN rl[i]) \cup {"RI"} |-> IF k = "RI" THEN ri[i] ELSE rl[i][k]]]

Results == ResultsFrame(results_list, ri_series)

Init ==
    /\ pc = "idle"
    /\ run = 0
    /\ args = NoArgs
    /\ fungicide = SpraySchedule
    /\ day = 0
    /\ results_day = NoRecord
    /\ results_list = <<>>
    /\ ri_series = <<>>
    /\ rt_count = <<>>
    /\ raised = ""
    /\ prev = NoRun
    /\ call = NoCall
    /\ batch = NoBatch

(* a call of estimate_disease_severity, lines 440-448                       *)
Call ==
    /\ \/ pc = "idle"
       \/ pc \in {"returned", "raised"} /\ run < 2
    /\ \E a \in (IF run = 0 THEN ArgSet ELSE ArgVariants(args)) :
          /\ args' = a
          /\ ri_series' = Zeros(Len(a.weather_df))
          /\ rt_count' = Zeros(Len(a.weather_df))
    /\ prev' = IF run = 0 THEN NoRun
               ELSE [args |-> args, outcome |-> pc, results |-> Results, day |-> day]
    /\ run' = run + 1
    /\ pc' = "loop"
    /\ day' = 0
    /\ results_day' = NoRecord
    /\ results_list' = <<>>
    /\ raised' = ""
    /\ UNCHANGED <<fungicide, call>>
    /\ UNCHANGED batch

(* loop iteration day = 1, lines 499-519                                    *)
DayOne ==
    /\ pc = "loop"
    /\ day = 0
    /\ 1 <= total_days - 3
    /\ LET r == estimate_disease_severity_day_one(args, fungicide)
       IN  /\ fungicide' = r.fungicide
           /\ IF r.raised # ""
              THEN /\ pc' = "raised"
                   /\ raised' = r.raised
                   /\ UNCHANGED <<results_day, results_list, ri_series>>
              ELSE /\ results_day' = r.results_day
                   /\ results_list' = <<r.results_day>>
                   /\ ri_series' = [ri_series EXCEPT ![1] = r.RI]
                   /\ UNCHANGED <<pc, raised>>
    /\ day' = 1
    /\ UNCHANGED <<run, args, rt_count, prev, call>>
    /\ UNCHANGED batch

(* loop iteration day >= 2 that is not past the cutoff, lines 523-566       *)
DayN ==
    /\ pc = "loop"
    /\ day >= 1
    /\ day + 1 <= total_days - 3
    /\ ~(day + 1 > args.days_after_planting)
    /\ LET d == day + 1
           c == DictCopy(results_day)
           r == estimate_disease_severity_day_n(
                    args, fungicide, d, CarryForward(c.dict, ri_series, d),
                    ri_series, results_list, rt_count)
       IN  /\ day' = d
           /\ fungicide' = r.fungicide
           /\ IF r.raised # ""
              THEN /\ pc' = "raised"
                   /\ raised' = r.raised
                   /\ UNCHANGED <<results_day, results_list, ri_series, rt_count>>
              ELSE /\ results_day' = r.results_day
                   /\ results_list' = HistoryAfterStep(r.results_list, c, r.results_day)
                   /\ ri_series' = r.ri_series
                   /\ rt_count' = r.rt_count
                   /\ UNCHANGED <<pc, raised>>
    /\ UNCHANGED <<run, args, prev, call>>
    /\ UNCHANGED batch

(* loop iteration day >= 2 past the cutoff, lines 523-545, then the return  *)
Cutoff ==
    /\ pc = "loop"
    /\ day >= 1
    /\ day + 1 <= total_days - 3
    /\ day + 1 > args.days_after_planting
    /\ LET d == day + 1
           c == DictCopy(results_day)
           rd == ZeroColumns(CarryForward(c.dict, ri_series, d))
       IN  /\ day' = d
           /\ results_day' = rd
           /\ results_list' = HistoryAfterStep(Append(results_list, rd), c, rd)
           /\ rt_count' = SubSeq(rt_count, 1, Min(Len(rt_count), Len(results_list) + 2))
    /\ pc' = "returned"
    /\ UNCHANGED <<run, args, fungicide, ri_series, raised, prev, call>>
    /\ UNCHANGED batch

(* the loop is exhausted, lines 568-572; day is unbound when the loop body  *)
(* never ran                                                                *)
Return ==
    /\ pc = "loop"
    /\ day + 1 > total_days - 3
    /\ IF day = 0
       THEN pc' = "raised" /\ raised' = "UnboundLocalError"
       ELSE pc' = "returned" /\ UNCHANGED raised
    /\ UNCHANGED <<run, args, fungicide, day, results_day, results_list, ri_series,
                   rt_count, prev, call>>
    /\ UNCHANGED batch

Next == Call \/ DayOne \/ DayN \/ Cutoff \/ Return

Spec == Init /\ [][Next]_vars

(***************************************************************************)
(* Direct calls of the fungicide helpers and of the fungicide block of     *)
(* estimate_disease_severity_day_n, on schedules, days, rainfall and       *)
(* residual sums drawn from small sets.                                    *)
(***************************************************************************)
MaxHelperDay == 11

HelperDays == 1..MaxHelperDay

(* ResSpray, in tenths of a millimetre                                      *)
ResSpraySet == {0, 50, 120}

ScheduleSet ==
    {SpraySchedule,
     [rows |-> <<[spray_number |-> 1, spray_moment |-> 2, spray_eff |-> 5000]>>,
      cols |-> {}],
     [rows |-> <<[spray_number |-> 1, spray_moment |-> 3, spray_eff |-> 8000],
                 [spray_number |-> 2, spray_moment |-> 1, spray_eff |-> 4000]>>,
      cols |-> {}]}

CallRecord(fn, d, rain, res, r, terms) ==
    [fn |-> fn, d |-> d, rain |-> rain, residual |-> res, raised |-> r.raised,
     value |-> r.value, FungEffcCur |-> terms.FungEffcCur,
     FungEffecRes |-> terms.FungEffecRes]

NoTerms == [FungEffcCur |-> 0, FungEffecRes |-> 0]

InitHelpers ==
    /\ pc = "helpers"
    /\ run = 0
    /\ args = NoArgs
    /\ fungicide \in ScheduleSet
    /\ day = 0
    /\ results_day = NoRecord
    /\ results_list = <<>>
    /\ ri_series = <<>>
    /\ rt_count = <<>>
    /\ raised = ""
    /\ prev = NoRun
    /\ call = NoCall
    /\ batch = NoBatch

HelperFrame ==
    UNCHANGED <<pc, run, args, day, results_day, results_list, ri_series, rt_count,
                raised, prev, batch>>

CallGetSpray ==
    /\ pc = "helpers"
    /\ \E d \in HelperDays, mm \in RainSet :
          LET r == get_spray(d, mm, fungicide)
          IN  /\ fungicide' = r.fungicide
              /\ call' = CallRecord("get_spray", d, mm, 0, r, NoTerms)
    /\ HelperFrame

CallFlowResidual ==
    /\ pc = "helpers"
    /\ \E d \in HelperDays, mm \in RainSet :
          LET r == calculate_flow_residual(d, mm, fungicide)
          IN  /\ fungicide' = r.fungicide
              /\ call' = CallRecord("calculate_flow_residual", d, mm, 0, r, NoTerms)
    /\ HelperFrame

CallGetRcRes ==
    /\ pc = "helpers"
    /\ \E d \in HelperDays, res \in ResSpraySet :
          LET r == get_rc_res(d, fungicide, res)
          IN  /\ fungicide' = r.fungicide
              /\ call' = CallRecord("get_rc_res", d, 0, res, r, NoTerms)
    /\ HelperFrame

CallEffectiveResidual ==
    /\ pc = "helpers"
    /\ \E d \in HelperDays, res \in ResSpraySet :
          LET r == calculate_fungicide_effective_residual(d, fungicide, res)
          IN  /\ fungicide' = r.fungicide
              /\ call' = CallRecord("calculate_fungicide_effective_residual",
                                    d, 0, res, r, NoTerms)
    /\ HelperFrame

(* estimate_disease_severity_day_n with is_fungicide = True, lines 298-326  *)
(* and 368-376: the fungicide terms are written to the caller's dict, then  *)
(* utils.calculate_flow_residual is called                                  *)
CallDayNFungicide ==
    /\ pc = "helpers"
    /\ \E d \in HelperDays \ {1}, mm \in RainSet, res \in ResSpraySet :
          LET ft == FungicideTermsDayN(d, fungicide, res)
              r == IF ft.raised # ""
                   THEN [raised |-> ft.raised, value |-> 0, fungicide |-> fungicide]
                   ELSE calculate_flow_residual(d, mm, fungicide)
          IN  /\ fungicide' = r.fungicide
              /\ call' = CallRecord("estimate_disease_severity_day_n", d, mm, res, r,
                                    IF ft.raised # "" THEN NoTerms ELSE ft)
    /\ HelperFrame

(* the first loop iteration of a run with fungicide, lines 499-519: the     *)
(* day-one initializer on the caller's schedule                             *)
HelperArgs ==
    [weather_df |-> [d \in 1..MaxDays |-> Row(200, 0)], p_opt |-> 2,
     is_fungicide |-> TRUE, days_after_planting |-> DefaultDap,
     ip_t_cof |-> ip_t_cof]

CallDayOneFungicide ==
    /\ pc = "helpers"
    /\ LET r == estimate_disease_severity_day_one(HelperArgs, fungicide)
       IN  /\ fungicide' = r.fungicide
           /\ results_day' = IF r.raised = "" THEN r.results_day ELSE results_day
           /\ call' = CallRecord("estimate_disease_severity_day_one", 1, 0, 0,
                                 [raised |-> r.raised, value |-> 0], NoTerms)
    /\ UNCHANGED <<pc, run, args, day, results_list, ri_series, rt_count, raised,
                   prev, batch>>

NextHelpers ==
    \/ CallGetSpray
    \/ CallFlowResidual
    \/ CallGetRcRes
    \/ CallEffectiveResidual
    \/ CallDayNFungicide
    \/ CallDayOneFungicide

SpecHelpers == InitHelpers /\ [][NextHelpers]_vars

(***************************************************************************)
(* Direct calls of estimate_disease_severity_day_n for day 2, by a caller  *)
(* that steps the engine itself: the dict it passes is the record of day 1 *)
(* with the pools H, HSEN, I and L set by the caller, with or without the  *)
(* flows of day 1.                                                         *)
(***************************************************************************)
StepArgs ==
    [weather_df |-> [d \in 1..MaxDays |-> Row(200, 0)], p_opt |-> 2,
     is_fungicide |-> FALSE, days_after_planting |-> DefaultDap,
     ip_t_cof |-> ip_t_cof]

StepPoolSet ==
    [H : {-1400, -100, 0, 100, H_init * SU}, HSEN : {0, 100, 1400},
     I : {0, 100, 1400}, L : {0, 100}, flows : BOOLEAN]

StepRecord(pools) ==
    LET r1 == estimate_disease_severity_day_one(StepArgs, SpraySchedule).results_day
        rd == [r1 EXCEPT !.H = pools.H, !.HSEN = pools.HSEN, !.I = pools.I,
                         !.L = pools.L]
    IN  IF pools.flows THEN rd
        ELSE [rd EXCEPT !.RG = 0, !.RSEN = 0, !.RLEX = 0, !.REM = 0, !.RDI = 0,
                        !.RDL = 0]

InitStep ==
    /\ pc = "step"
    /\ run = 1
    /\ args = StepArgs
    /\ fungicide = SpraySchedule
    /\ day = 1
    /\ \E pools \in StepPoolSet :
          /\ results_day = StepRecord(pools)
          /\ ri_series = [Zeros(MaxDays) EXCEPT ![1] =
                IF pools.flows
                THEN estimate_disease_severity_day_one(StepArgs, SpraySchedule).RI
                ELSE 0]
    /\ results_list =
          <<estimate_disease_severity_day_one(StepArgs, SpraySchedule).results_day>>
    /\ rt_count = Zeros(MaxDays)
    /\ raised = ""
    /\ prev = NoRun
    /\ call = NoCall
    /\ batch = NoBatch

CallDayN ==
    /\ pc = "step"
    /\ LET r == estimate_disease_severity_day_n(
                    args, fungicide, day + 1, results_day, ri_series, results_list,
                    rt_count)
       IN  /\ day' = day + 1
           /\ fungicide' = r.fungicide
           /\ IF r.raised # ""
              THEN /\ pc' = "raised"
                   /\ raised' = r.raised
                   /\ UNCHANGED <<results_day, results_list, ri_series, rt_count>>
              ELSE /\ pc' = "stepped"
                   /\ results_day' = r.results_day
                   /\ results_list' = r.results_list
                   /\ ri_series' = r.ri_series
                   /\ rt_count' = r.rt_count
                   /\ UNCHANGED raised
    /\ UNCHANGED <<run, args, prev, call>>
    /\ UNCHANGED batch

NextStep == CallDayN

SpecStep == InitStep /\ [][NextStep]_vars

(***************************************************************************)
(* The batch driver calculation_crop_disease_severity (the same loop is in *)
(* calculation_disease_severity).  A location (info_id) is the number of   *)
(* its weather rows before and on or after its planting date; a result row *)
(* keeps the columns the table is sorted by.                               *)
(***************************************************************************)
MaxLocations == 2

LocationSet ==
    {l \in [before : 0..1, after : {0, 3, MaxDays}] : l.before + l.after >= 1}

DataSet == UNION {[1..n -> LocationSet] : n \in 1..MaxLocations}

number_applications_list == {<<0>>, <<0, 1>>}
genetic_mechanistic_list == {<<"Susceptible">>, <<"Susceptible", "Resistant">>}

(* itertools.product(number_applications_list, genetic_mechanistic_list,   *)
(* planting_date_list): an info_id has one planting date                    *)
Combinations(b) == Len(b.apps) * Len(b.gens)
number_applications(b) == b.apps[((b.combo - 1) \div Len(b.gens)) + 1]
genetic_mechanistic(b) == b.gens[((b.combo - 1) % Len(b.gens)) + 1]

(* how a call of estimate_disease_severity on n rows ends                   *)
EngineOutcome(n, using_fungicide) ==
    IF n < 4 THEN "UnboundLocalError"
    ELSE estimate_disease_severity_day_one(
             [weather_df |-> [d \in 1..n |-> Row(200, 0)], p_opt |-> 2,
              is_fungicide |-> using_fungicide,
              days_after_planting |-> DefaultDap, ip_t_cof |-> ip_t_cof],
             SpraySchedule).raised

GeneticRank == [Moderate |-> 1, Resistant |-> 2, Susceptible |-> 3]

RowBefore(r1, r2) ==
    \/ r1.locationId < r2.locationId
    \/ /\ r1.locationId = r2.locationId
       /\ \/ r1.number_applications < r2.number_applications
          \/ /\ r1.number_applications = r2.number_applications
             /\ GeneticRank[r1.genetic_mechanistic]
                    < GeneticRank[r2.genetic_mechanistic]

RECURSIVE sort_values(_)
sort_values(rows) ==
    IF rows = <<>> THEN <<>>
    ELSE LET i == CHOOSE k \in 1..Len(rows) :
                      \A j \in 1..Len(rows) : ~RowBefore(rows[j], rows[k])
         IN  <<rows[i]>> \o sort_values(SubSeq(rows, 1, i - 1)
                                        \o SubSeq(rows, i + 1, Len(rows)))

InitBatch ==
    /\ pc = "idle"
    /\ run = 0
    /\ args = NoArgs
    /\ fungicide = SpraySchedule
    /\ day = 0
    /\ results_day = NoRecord
    /\ results_list = <<>>
    /\ ri_series = <<>>
    /\ rt_count = <<>>
    /\ raised = ""
    /\ prev = NoRun
    /\ call = NoCall
    /\ \E data \in DataSet, apps \in number_applications_list,
          gens \in genetic_mechanistic_list :
          batch = [pc |-> "location", data |-> data, apps |-> apps, gens |-> gens,
                   id |-> 0, combo |-> 0, df |-> [before |-> 0, after |-> 0],
                   all_results |-> <<>>, printed |-> {}, raised |-> ""]

BatchFrame ==
    UNCHANGED <<pc, run, args, fungicide, day, results_day, results_list, ri_series,
                rt_count, raised, prev, call>>

(* lines 36-39: the next info_id and its rows                               *)
ForLocation ==
    /\ batch.pc = "location"
    /\ batch.id < Len(batch.data)
    /\ batch' = [batch EXCEPT !.id = @ + 1, !.df = batch.data[batch.id + 1],
                              !.combo = 1, !.pc = "combination"]
    /\ BatchFrame

(* lines 41-107: one combination; df is narrowed in place by line 53        *)
ForCombination ==
    /\ batch.pc = "combination"
    /\ LET b == batch
           after == [b EXCEPT !.df = [before |-> 0, after |-> b.df.after],
                              !.combo = IF b.combo = Combinations(b) THEN 0 ELSE @ + 1,
                              !.pc = IF b.combo = Combinations(b)
                                     THEN "location" ELSE "combination"]
           out == EngineOutcome(b.df.after, number_applications(b) > 0)
       IN  IF b.df.before + b.df.after = 0
           THEN batch' = [b EXCEPT !.pc = "raised", !.raised = "IndexError"]
           ELSE IF b.df.after = 0
           THEN batch' = [after EXCEPT !.printed = @ \cup {b.id}]
           ELSE IF out # ""
           THEN batch' = [b EXCEPT !.pc = "raised", !.raised = out,
                                   !.df = [before |-> 0, after |-> b.df.after]]
           ELSE batch' = [after EXCEPT !.all_results = Append(@,
                             [locationId |-> b.id,
                              number_applications |-> number_applications(b),
                              genetic_mechanistic |-> genetic_mechanistic(b)])]
    /\ BatchFrame

(* lines 109-120: the table is built, sorted and returned                   *)
Finish ==
    /\ batch.pc = "location"
    /\ batch.id = Len(batch.data)
    /\ batch' = IF batch.all_results = <<>>
                THEN [batch EXCEPT !.pc = "raised", !.raised = "KeyError"]
                ELSE [batch EXCEPT !.pc = "returned",
                                   !.all_results = sort_values(@)]
    /\ BatchFrame

NextBatch == ForLocation \/ ForCombination \/ Finish

SpecBatch == InitBatch /\ [][NextBatch]_vars

(***************************************************************************)
(* Direct calls of utils.calculate_antecedent_precipitation_conditions_    *)
(* score on a boolean series and a day, the window running off the end of  *)
(* the series included.                                                    *)
(***************************************************************************)
OccurSet == UNION {[1..n -> BOOLEAN] : n \in 1..MaxDays}

InitScore ==
    /\ pc = "scorer"
    /\ run = 0
    /\ args = NoArgs
    /\ fungicide = SpraySchedule
    /\ day = 0
    /\ results_day = NoRecord
    /\ results_list = <<>>
    /\ ri_series = <<>>
    /\ rt_count = <<>>
    /\ raised = ""
    /\ prev = NoRun
    /\ call = NoCall
    /\ batch = NoBatch

CallPrecipScore ==
    /\ pc = "scorer"
    /\ \E occ \in OccurSet :
          \E d \in 1..Len(occ) :
              call' = [fn |-> "calculate_antecedent_precipitation_conditions_score",
                       d |-> d, precip_occur |-> occ,
                       value |-> calculate_antecedent_precipitation_conditions_score(
                                     d, occ)]
    /\ pc' = "scored"
    /\ UNCHANGED <<run, args, fungicide, day, results_day, results_list,
                   ri_series, rt_count, raised, prev, batch>>

NextScore == CallPrecipScore

SpecScore == InitScore /\ [][NextScore]_vars

(***************************************************************************)
(* Properties of the records of a run                                      *)
(***************************************************************************)
(* the record the loop appended at the cutoff (day > days_after_planting)   *)
IsCutoffRecord(i) ==
    /\ pc = "returned"
    /\ i = Len(results_list)
    /\ i >= 2
    /\ i > args.days_after_planting

(* the records a DayOne or DayN step wrote                                  *)
SimulatedDays == { d \in 1..Len(results_list) : ~IsCutoffRecord(d) }

Conserved(rec) ==
    /\ rec.TOTSITES = rec.HSEN + rec.H + rec.DIS
    /\ rec.DIS = rec.R + rec.I + rec.CumuLeak + rec.L

(* C1 as stated: every record the run emits satisfies                       *)
(* TOTSITES = HSEN + H + DIS and DIS = R + I + CumuLeak + L                 *)
C1_AllRecordsConserved ==
    \A i \in 1..Len(results_list) : Conserved(results_list[i])

(* C1: every record written by the day-one initializer or by a DayN step,   *)
(* that is every record but the one appended at the cutoff, satisfies       *)
(* TOTSITES = HSEN + H + DIS and DIS = R + I + CumuLeak + L                 *)
C1_Conservation ==
    \A i \in 1..Len(results_list) :
        ~IsCutoffRecord(i) => Conserved(results_list[i])

(* a run that simulated day 2 with latent sites and then hit the cutoff     *)
C1_Witness ==
    /\ pc = "returned"
    /\ Len(results_list) >= 3
    /\ IsCutoffRecord(Len(results_list))
    /\ results_list[2].DIS > results_list[2].I
    /\ results_list[Len(results_list)].L > 0

(* round(p) of a record: the latent period, in days, of that day's cohort   *)
RoundedP(rec) == RoundHalfEven(rec.p_opt * FR, Interp(rec.Temp, p_t_cof))

(* C2: with round(p) = k on every simulated day, RT(d) = RI(d - k) on every *)
(* simulated day d > k and RT(d) = 0 on every simulated day d <= k          *)
C2_DelayLine ==
    (pc \in {"loop", "returned"} /\ results_list # <<>>) =>
        LET k == RoundedP(results_list[1])
        IN  (\A d \in SimulatedDays : RoundedP(results_list[d]) = k) =>
                \A d \in SimulatedDays :
                    results_list[d].RT = IF d > k THEN ri_series[d - k] ELSE 0

(* C3: in a run whose records never have TOTSITES = 0 or H = 0, every       *)
(* record has 0 <= Sev <= 1                                                 *)
C3_SevBounded ==
    (\A i \in 1..Len(results_list) :
        results_list[i].TOTSITES # 0 /\ results_list[i].H # 0) =>
    \A i \in 1..Len(results_list) :
        0 <= results_list[i].Sev /\ results_list[i].Sev <= SevScale

(* the score table over a window of four days                               *)
C4_Table(w) ==
    LET S4 == B2I(w[1]) + B2I(w[2]) + B2I(w[3]) + B2I(w[4])
    IN  IF S4 = 0 THEN 1
        ELSE IF S4 = 1 THEN 2
        ELSE IF S4 = 2 THEN 3
        ELSE IF S4 >= 3 /\ \E i \in 1..3 : w[i] /\ w[i + 1] THEN 3
        ELSE IF S4 >= 3 /\ \E i \in 1..2 : w[i] /\ w[i + 1] /\ w[i + 2] THEN 3
        ELSE 4

C4_Window(d) == [j \in 1..4 |-> args.weather_df[d + j - 1].precip_occur]

(* C4: on every simulated day d, Rc_W(d) is the table value of the window   *)
(* rain[d..d+3]: 1 for no rainy day, 2 for one, 3 for two, 3 for three or   *)
(* more with two adjacent or three consecutive rainy days, else 4; and      *)
(* [0,0,0,0]->1, [1,0,0,0]->2, [1,1,0,0]->3, [1,0,0,1]->3, [1,1,1,1]->3     *)
C4_PrecipScore ==
    /\ \A d \in SimulatedDays : results_list[d].Rc_W = C4_Table(C4_Window(d))
    /\ calculate_antecedent_precipitation_conditions_score(
           1, <<FALSE, FALSE, FALSE, FALSE>>) = 1
    /\ calculate_antecedent_precipitation_conditions_score(
           1, <<TRUE, FALSE, FALSE, FALSE>>) = 2
    /\ calculate_antecedent_precipitation_conditions_score(
           1, <<TRUE, TRUE, FALSE, FALSE>>) = 3
    /\ calculate_antecedent_precipitation_conditions_score(
           1, <<TRUE, FALSE, FALSE, TRUE>>) = 3
    /\ calculate_antecedent_precipitation_conditions_score(
           1, <<TRUE, TRUE, TRUE, TRUE>>) = 3

(* a finished run whose days scored 1, 2, 3 for two rainy days and 3 for    *)
(* three rainy days                                                         *)
C4_Witness ==
    /\ pc = "returned"
    /\ \E d \in SimulatedDays : results_list[d].Rc_W = 1
    /\ \E d \in SimulatedDays : results_list[d].Rc_W = 2
    /\ \E d \in SimulatedDays :
          /\ results_list[d].Rc_W = 3
          /\ Cardinality({j \in 1..4 : C4_Window(d)[j]}) = 2
    /\ \E d \in SimulatedDays :
          /\ results_list[d].Rc_W = 3
          /\ Cardinality({j \in 1..4 : C4_Window(d)[j]}) >= 3

(* the first loop day past days_after_planting (day 1 is never cut off)     *)
CutoffDay(a) == Max(2, a.days_after_planting + 1)

FungicideFields ==
    {"ResSpray", "FlowRes", "FungEffcCur", "RcFCur", "Residual", "RcRes",
     "FungEffecRes", "EffRes"}

(* C5: a call whose loop reaches a day d > days_after_planting ends with    *)
(* one final record in which every field but I, L, AUDPC and GDUsum is 0    *)
(* (the fungicide fields too when fungicide is modelled), with no DayN      *)
(* step for d or a later day, and returns d                                 *)
C5_CutoffRecord ==
    (pc \in {"returned", "raised"} /\ CutoffDay(args) <= total_days - 3) =>
        /\ pc = "returned"
        /\ day = CutoffDay(args)
        /\ Len(results_list) = day
        /\ LET last == results_list[Len(results_list)]
           IN  /\ \A k \in DOMAIN last : k \notin KeptColumns => last[k] = 0
               /\ args.is_fungicide => FungicideFields \subseteq DOMAIN last

(* the two calls got the same tables, scalars and schedule flag             *)
SameScalars ==
    [prev.args EXCEPT !.weather_df = <<>>] = [args EXCEPT !.weather_df = <<>>]

(* the records of days 1..d of the two calls are the same (so are RI(1..d), *)
(* the RT history and the latent periods the countdowns were set from)      *)
SameRecordsUpTo(d) == \A i \in 1..d : prev.results[i] = Results[i]

C7_Determinism ==
    (run = 2 /\ args = prev.args) =>
        /\ \A i \in 1..Len(results_list) :
              i <= Len(prev.results) /\ Results[i] = prev.results[i]
        /\ pc \in {"returned", "raised"} =>
              /\ pc = prev.outcome
              /\ day = prev.day
              /\ Results = prev.results

(* a second run on the same arguments that returned four simulated days,    *)
(* after a first run that left rt_count counted down                        *)
C7_Witness ==
    /\ run = 2
    /\ args = prev.args
    /\ pc = "returned"
    /\ Len(results_list) >= 4
    /\ results_list[4].RT # 0
    /\ \E i \in 1..Len(rt_count) : rt_count[i] < 0

(***************************************************************************)
(* Properties of the fungicide helpers                                     *)
(***************************************************************************)
(* the rows of the schedule with spray_moment < d <= spray_moment + interval *)
ActiveRows(d) ==
    { i \in 1..Len(fungicide.rows) :
        fungicide.rows[i].spray_moment < d
        /\ d <= fungicide.rows[i].spray_moment + spray_interval }

(* the rows with spray_moment <= d <= spray_moment + interval               *)
CurrentRows(d) ==
    { i \in 1..Len(fungicide.rows) :
        fungicide.rows[i].spray_moment <= d
        /\ d <= fungicide.rows[i].spray_moment + spray_interval }

FirstOf(rows) == CHOOSE i \in rows : \A j \in rows : i <= j

MaxEff(rows) ==
    CHOOSE e \in { fungicide.rows[i].spray_eff : i \in rows } :
        \A j \in rows : fungicide.rows[j].spray_eff <= e

C10_WashInFlow ==
    /\ call.fn \in {"get_spray", "calculate_flow_residual"} =>
          /\ call.raised = ""
          /\ call.value = IF ActiveRows(call.d) = {} THEN 0 ELSE call.rain
    /\ call.fn \in {"get_rc_res", "calculate_fungicide_effective_residual"} =>
          /\ call.raised = ""
          /\ ActiveRows(call.d) = {} => call.value = FR

(***************************************************************************)
(* Pools, error outcomes and the latency queue                             *)
(***************************************************************************)
SitePools == {"H", "HSEN", "L", "I", "R", "LeakL", "LeakI"}

(* C11: on every day of every run each of the site pools H, HSEN, L, I, R,  *)
(* LeakL and LeakI is >= 0                                                  *)
C11_NonNegativePools ==
    \A i \in 1..Len(results_list) :
        \A k \in SitePools : results_list[i][k] >= 0

(* C12: a call with a weather series of fewer than 4 rows is rejected with  *)
(* a descriptive error; it returns no result and fails with no other fault  *)
C12_InsufficientWeather ==
    (pc \in {"returned", "raised"} /\ total_days < 4) =>
        pc = "raised" /\ raised = "InsufficientWeather"

ValidTable(tab) ==
    /\ Len(tab.x) >= 2
    /\ \A j \in 1..(Len(tab.x) - 1) : tab.x[j] < tab.x[j + 1]

(* C14: a call whose lookup table has fewer than two points or x values    *)
(* that are not ascending is rejected before any day is simulated           *)
C14_ConfigurationValidation ==
    ~ValidTable(args.ip_t_cof) => (day = 0 /\ pc # "returned")

(* C15: a batch in which a location was skipped for having no rows in the  *)
(* date range does not fail for that: it fails only where an engine run     *)
(* fails, and otherwise returns a table                                     *)
C15_EmptyDateRange ==
    (batch.pc = "raised" /\ batch.printed # {}) =>
        batch.raised \notin {"IndexError", "KeyError"}

(* the slots of the cohorts of days 2..day have been counted down once on   *)
(* every DayN step since they were stored, the step that stored them        *)
(* included                                                                 *)
SlotsCountedDown ==
    \A i \in 2..day : rt_count[i] = RoundedP(results_list[i]) - (day - i + 1)

SumOverSlots(v) ==
    SumSeq([i \in 1..Len(ri_series) |-> IF rt_count[i] = v THEN ri_series[i] ELSE 0])

(* C16 as stated: a DayN step stores round(p), counts every slot down and   *)
(* then sums RI over the slots that are exactly 0, so the cohort stored     *)
(* with k on day d is counted on day d + k - 1                              *)
C16_LatencyStepOrder ==
    (pc = "loop" /\ day >= 2) =>
        /\ SlotsCountedDown
        /\ results_list[day].RT = SumOverSlots(0)

(* C16 amended: a DayN step stores round(p), sums RI over the slots that    *)
(* are exactly 0 and then counts every slot down, so RT is the sum over     *)
(* the slots that are -1 after the step and the cohort stored with k on     *)
(* day d is counted on day d + k                                            *)
C16_LatencyStepOrderSumFirst ==
    (pc = "loop" /\ day >= 2) =>
        /\ SlotsCountedDown
        /\ results_list[day].RT = SumOverSlots(-1)

(* a cohort of a DayN step, stored with k >= 1, is being counted            *)
C16_Witness ==
    /\ pc = "loop"
    /\ day >= 3
    /\ \E i \in 2..(day - 1) :
          /\ rt_count[i] = -1
          /\ ri_series[i] # 0
          /\ RoundedP(results_list[i]) = day - i
          /\ results_list[day].RT = ri_series[i]

(* the records of DayN steps that read the history to set REM               *)
LookbackDays ==
    { d \in SimulatedDays \ {1} : d * FR > results_list[d].ip }

(* C17: on every DayN day d with d > ip, REM is the RT of the history       *)
(* record at 0-based index ceil(d - ip) - 1, the record of day ceil(d - ip) *)
C17_RemLookbackIndex ==
    \A d \in LookbackDays :
        LET e == CeilDayMinusIp(d, results_list[d].ip)
        IN  e <= d - 1 => results_list[d].REM = results_list[e].RT

(* C18: the list index a DayN step uses to read REM is never negative, and  *)
(* the record it reads belongs to a day e with 1 <= e <= d - ip             *)
C18_RemLookbackInPast ==
    \A d \in LookbackDays :
        LET history == SubSeq(results_list, 1, d - 1)
            k == RemIndex(d, results_list[d].ip, history)
            e == PyIndex(Len(history), k)
        IN  /\ k >= 0
            /\ 1 <= e
            /\ e * FR <= d * FR - results_list[d].ip

(* the cohorts of DayN steps that graduate on day d: those of the days i    *)
(* with i + round(p_i) = d                                                  *)
CohortsDue(d) == { i \in 2..d : i + RoundedP(results_list[i]) = d }

(* C19: the RT of every DayN day d is the sum of RI[i] over the cohorts     *)
(* i >= 2 with i + round(p_i) = d, each cohort counted on that day and on   *)
(* no other, and the slots of days after d add nothing; the only other      *)
(* term is RI[1] on day 2, the slot of day 1 being never stored             *)
C19_CohortGraduatesOnce ==
    \A d \in SimulatedDays \ {1} :
        results_list[d].RT =
            SumSeq([i \in 1..Len(ri_series) |->
                       IF i \in CohortsDue(d) \/ (i = 1 /\ d = 2)
                       THEN ri_series[i] ELSE 0])

(* a cohort stored with k >= 1 on a DayN day has graduated on day i + k,    *)
(* and the day before it was not yet counted                                *)
C19_Witness ==
    /\ pc = "loop"
    /\ \E i \in 2..day :
          LET k == RoundedP(results_list[i])
          IN  /\ k >= 1
              /\ i + k <= day
              /\ ri_series[i] # 0
              /\ results_list[i + k].RT = ri_series[i]
              /\ results_list[i + k - 1].RT # ri_series[i]

(* C20: on every DayN day d >= 2 the total is the total of the day before  *)
(* plus the growth of the day before: TOTSITES(d) = TOTSITES(d-1) + RG(d-1) *)
C20_SiteMassBalance ==
    \A d \in SimulatedDays \ {1} :
        results_list[d].TOTSITES =
            results_list[d - 1].TOTSITES + results_list[d - 1].RG

(* a DayN day whose previous day had growth and non-zero flows between the  *)
(* pools                                                                    *)
C20_Witness ==
    /\ pc = "loop"
    /\ day >= 3
    /\ results_list[day - 1].RG # 0
    /\ results_list[day - 1].RT # 0
    /\ results_list[day - 1].REM # 0
    /\ results_list[day - 1].RSEN # 0
    /\ ri_series[day - 1] # 0
    /\ results_list[day].L # results_list[day - 1].L
    /\ results_list[day].TOTSITES # results_list[day - 1].TOTSITES

(***************************************************************************)
(* Fungicide wash-in, frame conditions and the run's control flow.         *)
(***************************************************************************)
(* C21: a run with fungicide emits records, ResSpray(1) = 0 and, for every  *)
(* DayN day d, ResSpray(d) = ResSpray(d-1) + FlowRes(d-1)                   *)
C21_ResSprayRunningSum ==
    (args.is_fungicide /\ total_days >= 4 /\ pc \in {"returned", "raised"}) =>
        /\ results_list # <<>>
        /\ results_list[1].ResSpray = 0
        /\ \A d \in SimulatedDays \ {1} :
              results_list[d].ResSpray =
                  results_list[d - 1].ResSpray + results_list[d - 1].FlowRes

(* C22: on every DayN day d with d <= ip the REM of the day before is kept, *)
(* and while no day so far had d > ip it is the seed of day 1               *)
C22_RemUnchanged ==
    \A d \in SimulatedDays \ {1} :
        /\ d * FR <= results_list[d].ip =>
               results_list[d].REM = results_list[d - 1].REM
        /\ (\A e \in 2..d : e * FR <= results_list[e].ip) =>
               results_list[d].REM = REM_init

(* a day without lookback that follows a day with one keeps the value read  *)
(* then, which is not the seed                                              *)
C22_Witness ==
    /\ pc = "loop"
    /\ day >= 3
    /\ 2 * FR > results_list[2].ip
    /\ 3 * FR <= results_list[3].ip
    /\ results_list[3].REM = results_list[2].REM
    /\ results_list[3].REM # REM_init

FirstSprayMoment(fung) ==
    CHOOSE m \in {fung.rows[i].spray_moment : i \in 1..Len(fung.rows)} :
        \A i \in 1..Len(fung.rows) : m <= fung.rows[i].spray_moment

UntreatedFields ==
    {"H", "L", "I", "R", "DIS", "TOTSITES", "Sev", "Rc", "RT", "REM", "AUDPC",
     "GDUsum"}

(* C23: with a schedule whose first spray is after day 1, the first day of  *)
(* a run with fungicide has the values of the run without fungicide in      *)
(* every non-fungicide field                                                *)
C23_NoEffectBeforeFirstSpray ==
    (call.fn = "estimate_disease_severity_day_one"
        /\ FirstSprayMoment(fungicide) > 1) =>
        LET untreated == estimate_disease_severity_day_one(
                             [HelperArgs EXCEPT !.is_fungicide = FALSE], fungicide)
        IN  /\ call.raised = ""
            /\ \A k \in UntreatedFields :
                  results_day[k] = untreated.results_day[k]

(* C24: within a run no step changes a record the history list already     *)
(* holds, nor the RI of a day already processed, and the rt_count slot of   *)
(* a processed day is afterwards only counted down                          *)
C24_RecordsImmutable ==
    [][run' = run =>
         /\ Len(results_list') >= Len(results_list)
         /\ \A i \in 1..Len(results_list) : results_list'[i] = results_list[i]
         /\ \A i \in 1..Len(results_list) : ri_series'[i] = ri_series[i]
         /\ \A i \in 2..Len(results_list) :
               rt_count'[i] \in {rt_count[i], rt_count[i] - 1}]_vars

(* a run that made carry-forwards and DayN steps and then zeroed the        *)
(* columns of its cutoff record                                             *)
C24_Witness ==
    /\ pc = "returned"
    /\ Len(results_list) >= 3
    /\ IsCutoffRecord(Len(results_list))
    /\ results_list[Len(results_list)].H = 0
    /\ results_list[Len(results_list) - 1].H # 0
    /\ results_list[Len(results_list) - 1].I # results_list[Len(results_list)].I
    /\ results_list[1].I # results_list[2].I

(* C25: in a run over at least 4 rows every step of the loop processes the  *)
(* day after the one the previous step processed, day 1 first, at most      *)
(* total_days - 3 days in all, and the run ends Terminated (at the cutoff   *)
(* or with the series exhausted), never in another state                    *)
C25_RunStateMachine ==
    [][(pc = "loop" /\ total_days >= 4 /\ run' = run) =>
         \/ /\ pc' = "loop"
            /\ day' = day + 1
            /\ day' <= total_days - 3
            /\ Len(results_list') = day'
         \/ /\ pc' = "returned"
            /\ \/ day' = day + 1 /\ day' > args.days_after_planting
               \/ day' = day /\ day = total_days - 3
            /\ Len(results_list') = day']_vars

(* C26: the day a run returns is the number of records it emitted, which   *)
(* is min(total_days - 3, max(days_after_planting, 1) + 1)                  *)
C26_ReturnedDay ==
    (pc = "returned" /\ Len(args.weather_df) >= 4) =>
        /\ day = Len(results_list)
        /\ day = Min(Len(args.weather_df) - 3,
                     Max(args.days_after_planting, 1) + 1)

(* a run with days_after_planting below 1 has returned: two records, the    *)
(* second the cutoff record                                                 *)
C26_Witness ==
    /\ pc = "returned"
    /\ Len(args.weather_df) >= 4
    /\ args.days_after_planting < 1
    /\ day = 2
    /\ Len(results_list) = 2

(* the days on which the engine called the precipitation scorer: day 1 and *)
(* the DayN days                                                            *)
ScoredDays == { d \in 1..day : ~IsCutoffRecord(d) }

(* C27: on every day d on which the engine calls the precipitation scorer,  *)
(* d + 3 <= total_days, so the window holds 4 existing weather rows         *)
C27_WindowInSeries ==
    pc \in {"loop", "returned", "raised"} =>
        \A d \in ScoredDays :
            /\ d + 3 <= Len(args.weather_df)
            /\ Len(PrecipWindow(d, OccurOf(args.weather_df))) = 4

(* the last day of the loop has been scored, and its window read the last   *)
(* row of the series, the only rainy one of the four                        *)
C27_Witness ==
    /\ pc = "loop"
    /\ day >= 2
    /\ day = Len(args.weather_df) - 3
    /\ args.weather_df[day + 3].precip_occur
    /\ \A j \in 0..2 : ~args.weather_df[day + j].precip_occur
    /\ results_list[day].Rc_W = 2

(* the rainy days of the window of day d: rows d..d+3, as far as they exist *)
RainyDays(d, occ) ==
    Cardinality({ j \in d..Min(d + 3, Len(occ)) : occ[j] })

(* C28: for every boolean window of length 1 to 4 the scorer returns        *)
(* 1 + min(S, 2), S the number of rainy days in the window; it never        *)
(* returns 4                                                                *)
C28_ScoreFourNeverProduced ==
    call.fn = "calculate_antecedent_precipitation_conditions_score" =>
        /\ call.value = 1 + Min(RainyDays(call.d, call.precip_occur), 2)
        /\ call.value \in {1, 2, 3}

(* a window with three rainy days, not all of them adjacent, was scored 3   *)
C28_Witness ==
    /\ call.fn = "calculate_antecedent_precipitation_conditions_score"
    /\ call.d + 3 <= Len(call.precip_occur)
    /\ call.precip_occur[call.d]
    /\ call.precip_occur[call.d + 1]
    /\ ~call.precip_occur[call.d + 2]
    /\ call.precip_occur[call.d + 3]
    /\ call.value = 3

DayOneConstants ==
    {"p_opt", "ip_opt", "RRLEX", "RRSEN", "RRG", "RRDD", "SITEmax", "Agg", "inocp",
     "RcOpt"}

(* C29: every record of a DayN step has the values the day-one initializer *)
(* stored in p_opt, ip_opt, RRLEX, RRSEN, RRG, RRDD, SITEmax, Agg, inocp    *)
(* and RcOpt: RRG = 0.173, RRSEN = 0.002307, RRDD = 0.0001,                 *)
(* SITEmax = 10,000,000, Agg = 1                                            *)
C29_DayOneConstantsCarried ==
    \A d \in SimulatedDays \ {1} :
        /\ \A k \in DayOneConstants : results_list[d][k] = results_list[1][k]
        /\ results_list[d].p_opt = args.p_opt
        /\ results_list[d].ip_opt = ip_opt
        /\ results_list[d].RRLEX = rrlex_par
        /\ results_list[d].inocp = inocp
        /\ results_list[d].RcOpt = rc_opt_par - rrlex_par
        /\ results_list[d].RRG = RRG_permille
        /\ results_list[d].RRSEN = RRSEN_ppm
        /\ results_list[d].RRDD = RRDD_init
        /\ results_list[d].SITEmax = SITEmax_init * SU
        /\ results_list[d].Agg = 1

(* three DayN steps at a temperature other than that of day 1 have written  *)
(* their records                                                            *)
C29_Witness ==
    /\ pc = "loop"
    /\ day >= 4
    /\ results_list[day].Temp # results_list[1].Temp
    /\ results_list[day].Rc # results_list[1].Rc
    /\ results_list[day].H # results_list[1].H
    /\ results_list[day].Agg = 1

====
